---- MODULE Spec2Model ----
(***************************************************************************)
(* Weave-Manager, src-tauri/src/main.rs: instance discovery, injected      *)
(* relaunch and console multiplexing.                                      *)
(*                                                                         *)
(* The host application serves the tauri commands on its main thread; each *)
(* successful relaunch_with_weave starts one detached thread (the output   *)
(* multiplexer) that drains the child's stdout pipe into a buffered log    *)
(* writer and, when the child is the selected process, into the            *)
(* console_output event channel.                                           *)
(***************************************************************************)
EXTENDS Integers, Sequences, FiniteSets, TLC

\* ------------------------------------------------------------------ bounds
MaxSessions == 2      \* relaunches that reach thread::spawn
MaxLines == 2         \* lines the children write to their stdout, in all
MaxTicks == 2         \* clock readings 0..MaxTicks
TicksPerSecond == 2   \* clock instants inside one formatted second
MaxPid == 2           \* process identifiers 1..MaxPid (0 is never a process)
MaxFaults == 1        \* failing I/O calls (file create, file write, event emit)
MaxCallers == 2       \* threads that serve snapshot commands at the same time

\* -------------------------------------------------------- program constants
BufCapacity == 1000   \* BufWriter::with_capacity(1000, log_file)

\* Option<T>: None is the empty sequence, Some(x) the one-element sequence.
None == << >>
Some(x) == << x >>

Pids == 1..MaxPid
Sessions == 1..MaxSessions
Callers == 1..MaxCallers

\* ------------------------------------------------------------ file system
\* home_dir(): Some("/home/u") or None.  The .weave directory is either not a
\* directory, unreadable (read_dir fails), or a listing in read_dir order.
\* An entry is its file name and whether the name is valid Unicode.
Homes == {"/home/u", "NoHome"}

Entry(name, unicode) == [name |-> name, unicode |-> unicode]

Listing(kind, entries) == [kind |-> kind, entries |-> entries]

WeaveDirs ==
  { Listing("NotADir", <<>>),
    Listing("Unreadable", <<>>),
    Listing("Dir", << Entry("mods", TRUE), Entry("weave-loader.jar", TRUE) >>),
    Listing("Dir", << Entry("mods", TRUE), Entry("Weave-Loader-Agent.jar", TRUE),
                      Entry("Weave-Loader-1.jar", TRUE) >>),
    Listing("Dir", << Entry("Weave-Loader-bad", FALSE) >>) }

\* Executables Command::spawn can start and directories it can chdir into.
Executables == {"java"}
Directories == {"/mc"}

\* Arguments of relaunch_with_weave the front end may send.
Cwds == {"/mc", "/gone"}
CmdLines ==
  { <<>>, <<"java">>, <<"java", "-cp", "mc.jar">>, <<"nojava", "-x">>,
    <<"java", "-Djava.library.path=.minecraft/natives", "--version", "1.8.9">> }

\* The command lines used where the multiplexers run.
MuxCmdLines == { <<"java", "-cp", "mc.jar">>, <<"nojava", "-x">> }

\* Processes the rest of the system may start: executable file name and
\* command line.
ProcShapes ==
  { [exe |-> "java",
     cmd |-> << "java", "-Dgame=.minecraft", "--version", "1.8.9" >>],
    [exe |-> "python", cmd |-> << "python", "serve.py" >>] }

\* Processes for the classifier: every combination of executable name,
\* data-directory argument, variant markers and --version position that the
\* rules of fetch_minecraft_instances tell apart.
ClassifierShapes ==
  ProcShapes \cup
  { [exe |-> "JAVA",
     cmd |-> << "JAVA", "-Dgame=.minecraft", "--version", "1.8.9" >>],
    [exe |-> "javaw.exe",
     cmd |-> << "javaw.exe", "-cp", ".minecraft/lunar.jar", "--version", "1.8.9" >>],
    [exe |-> "java",
     cmd |-> << "java", ".minecraft/minecraftforge.jar", "--version", "1.12.2" >>],
    [exe |-> "java",
     cmd |-> << "java", ".minecraft/minecraftforge.jar", "lunar", "--version", "1.8.9" >>],
    [exe |-> "java", cmd |-> << "java", ".minecraft" >>],
    [exe |-> "java", cmd |-> << "java", ".minecraft", "--version" >>],
    [exe |-> "java", cmd |-> << "java", "--version", "17" >>],
    [exe |-> "java", cmd |-> << "java", ".minecraft", "--version", "--version" >>] }

\* Shapes of a line a child can write: length of its text in bytes (without
\* the terminator) and whether the bytes are valid UTF-8.
LineShapes ==
  { [len |-> 599, utf8 |-> TRUE],
    [len |-> 1199, utf8 |-> TRUE],
    [len |-> 599, utf8 |-> FALSE] }

VARIABLES
  alive,             \* the host application process is running
  home,              \* what home_dir() returns
  weave_dir,         \* contents of <home>/.weave
  now,               \* wall clock at its last reading, in instants
  selected_process,  \* AppState.selected_process (Arc<Mutex<u32>>)
  lastSelect,        \* history: argument of the last completed switch_console_output
  os,                \* operating-system process table: pid -> Option<process>
  snapshot,          \* AppState.system: pids sysinfo saw at its last refresh
  children,          \* per relaunch session: the spawned process
  pipe,              \* per session: the child's stdout pipe
  mux,               \* per session: the multiplexer thread
  files,             \* log directory: path -> Option<file>
  events,            \* console_output events emitted, in order
  ret,               \* outcome of the last relaunch_with_weave
  listed,            \* what the last fetch_minecraft_instances returned
  killed,            \* outcome of the last kill_pid
  faults,            \* I/O calls that have failed so far
  system_lock,       \* AppState.system (Mutex<System>): the caller that holds it, or 0
  calls              \* per caller: the snapshot command it is serving and its position

vars == << alive, home, weave_dir, now, selected_process, lastSelect, os,
           snapshot, children, pipe, mux, files, events, ret, listed, killed,
           faults, system_lock, calls >>

\* ------------------------------------------------------------ pure helpers
StartsWith(s, prefix) ==
  /\ Len(s) >= Len(prefix)
  /\ SubSeq(s, 1, Len(prefix)) = prefix

\* Path::join for the paths used here.
Join(dir, name) == dir \o "/" \o name

\* A resolver that forgets the prefix test: the first entry, whatever its name.
FirstEntry(dir, entries) ==
  IF entries = <<>> THEN None
  ELSE Some([path |-> Join(dir, Head(entries).name),
             unicode |-> Head(entries).unicode])

\* get_weave_loader_path: the first entry, in read_dir order, whose lossy
\* file name starts with "Weave-Loader"; None otherwise.
RECURSIVE FirstLoader(_, _)
FirstLoader(dir, entries) ==
  IF entries = <<>> THEN None
  ELSE IF StartsWith(Head(entries).name, "Weave-Loader")
       THEN Some([path |-> Join(dir, Head(entries).name),
                  unicode |-> Head(entries).unicode])
       ELSE FirstLoader(dir, Tail(entries))

get_weave_loader_path ==
  IF home = "NoHome" THEN None
  ELSE IF weave_dir.kind # "Dir" THEN None
  ELSE FirstLoader(Join(home, ".weave"), weave_dir.entries)

\* An argument builder that pushes the new element at the end.
VecPush(v, index, element) == Append(v, element)

\* Vec::insert(index, element), index counted from 0; defined for index <= len.
VecInsert(v, index, element) ==
  SubSeq(v, 1, index) \o << element >> \o SubSeq(v, index + 1, Len(v))

\* An agent argument that leaves the path out.
JavaAgentNoPath(path) == "-javaagent:"

\* String::from("-javaagent:") + path
JavaAgent(path) == "-javaagent:" \o path

\* updated_cmd after insert(1, java_agent)
UpdatedCmd(cmd_line, path) == VecInsert(cmd_line, 1, JavaAgent(path))

\* Timestamp format "%Y-%m-%d-%H%M%S": the clock truncated to whole seconds.
FormatTimestamp(t) == t \div TicksPerSecond

\* get_weave_logs_path().join(format!("{}.log", timestamp))
LogPath(t) == << "logs", FormatTimestamp(t) >>

LogPaths == { LogPath(t) : t \in 0..MaxTicks }

\* format!("{}\n", line).as_bytes().len()
FormattedLen(line) == line.len + 1

RECURSIVE BufBytes(_)
BufBytes(buf) ==
  IF buf = <<>> THEN 0 ELSE FormattedLen(Head(buf)) + BufBytes(Tail(buf))

\* The text of a line: which session wrote it and its position in the stream.
Text(line) == << line.src, line.n >>

RECURSIVE Texts(_)
Texts(ls) == IF ls = <<>> THEN <<>> ELSE << Text(Head(ls)) >> \o Texts(Tail(ls))

\* A payload that loses the identifier.
ConsolePayloadNoPid(line, pid) == [line |-> Text(line), pid |-> 0]

\* ConsolePayload { line, pid }
ConsolePayload(line, pid) == [line |-> Text(line), pid |-> pid]

\* ------------------------------------------------------------------ files
\* A file is its length in bytes and, as long as every write landed exactly
\* at its end, the lines it holds; a write elsewhere (over existing bytes or
\* past the end) leaves it torn.
EmptyFile == [size |-> 0, lines |-> <<>>, torn |-> FALSE]

\* write(2) of bs at offset pos through a handle opened without O_APPEND.
WriteAt(f, pos, bs) ==
  IF bs = <<>> THEN f
  ELSE IF pos = f.size /\ ~f.torn
       THEN [size |-> f.size + BufBytes(bs), lines |-> f.lines \o bs, torn |-> FALSE]
       ELSE [size |-> IF pos + BufBytes(bs) > f.size THEN pos + BufBytes(bs) ELSE f.size,
             lines |-> f.lines, torn |-> TRUE]

\* The file read back line by line; a torn file reads back as text no child
\* wrote (session 0 does not exist).
ReadBack(f) == IF f.torn THEN << << 0, 0 >> >> ELSE Texts(f.lines)

\* --------------------------------------------------------------- BufWriter
\* BufWriter::flush_buf: writes the whole buffer through; an empty buffer
\* needs no write and cannot fail.  ioOk is the outcome of the write.
\* Result: ok, the buffer left, and what reached the file.
FlushBuf(buf, ioOk) ==
  IF buf = <<>> \/ ioOk
  THEN [ok |-> TRUE, buf |-> <<>>, out |-> buf]
  ELSE [ok |-> FALSE, buf |-> buf, out |-> <<>>]

\* BufWriter::write_all(format!("{}\n", line)): buffered when it fits in the
\* spare capacity; otherwise the buffer is flushed when the line exceeds the
\* spare capacity, and a line of at least the whole capacity bypasses the
\* buffer.  flushOk and directOk are the outcomes of the two writes.
WriteAll(buf, line, flushOk, directOk) ==
  LET n == FormattedLen(line)
      spare == BufCapacity - BufBytes(buf)
  IN IF n < spare
     THEN [ok |-> TRUE, buf |-> Append(buf, line), out |-> <<>>]
     ELSE LET fl == IF n > spare THEN FlushBuf(buf, flushOk)
                    ELSE [ok |-> TRUE, buf |-> buf, out |-> <<>>]
          IN IF ~fl.ok THEN fl
             ELSE IF n >= BufCapacity
                  THEN IF directOk
                       THEN [ok |-> TRUE, buf |-> fl.buf, out |-> Append(fl.out, line)]
                       ELSE [ok |-> FALSE, buf |-> fl.buf, out |-> fl.out]
                  ELSE [ok |-> TRUE, buf |-> Append(fl.buf, line), out |-> fl.out]

\* A writer that is dropped without a flush.
DropWriterNone(buf, ioOk) == << >>

\* impl Drop for BufWriter: one flush_buf whose error is ignored.
DropWriter(buf, ioOk) == FlushBuf(buf, ioOk).out

\* ------------------------------------------------------ selection register
\* A register that keeps its first selection.
StoreSelectionOnce(old, pid) == IF old = 0 THEN pid ELSE old

\* A multiplexer that forwards whatever the register holds.
ForwardsAll(child_id, selected) == TRUE

\* *app_state.selected_process.lock().unwrap() = pid.into()
StoreSelection(old, pid) == pid

\* A multiplexer that also forwards while nothing is selected.
ForwardsUnselected(child_id, selected) == selected = 0 \/ child_id = selected

\* _child.id() == *selected_arc.lock().unwrap()
Forwards(child_id, selected) == child_id = selected

\* -------------------------------------------------------------- the state
NumSessions == Len(children)

Return(op, val, cause) == [op |-> op, val |-> val, cause |-> cause]

\* A multiplexer thread that has not run yet.
NewMux ==
  [pc |-> "start", log |-> None, pos |-> 0, buf |-> <<>>, cur |-> None,
   written |-> <<>>, flushed |-> <<>>, decided |-> <<>>, cause |-> "none"]

\* A caller that serves no command.
Idle == [pc |-> "idle", op |-> "none", pid |-> 0]

Init ==
  /\ alive = TRUE
  /\ home \in Homes
  /\ weave_dir \in WeaveDirs
  /\ now = 0
  /\ selected_process = 0
  /\ lastSelect = 0
  /\ os = [p \in Pids |-> None]
  /\ snapshot = os
  /\ children = <<>>
  /\ pipe = <<>>
  /\ mux = <<>>
  /\ files = [f \in LogPaths |-> None]
  /\ events = <<>>
  /\ ret = Return("none", "none", "none")
  /\ listed = {}
  /\ killed = [pid |-> 0, val |-> FALSE, existed |-> FALSE, signaled |-> FALSE]
  /\ faults = 0
  /\ system_lock = 0
  /\ calls = [c \in Callers |-> Idle]

\* ---------------------------------------------------------------- commands
\* A panic on the thread that serves the commands takes the application down.
PanicInCommand(op, cause) ==
  /\ alive' = FALSE
  /\ ret' = Return(op, "panic", cause)
  /\ UNCHANGED << home, weave_dir, now, selected_process, lastSelect, os,
                  snapshot, children, pipe, mux, files, events, listed, killed,
                  faults,
                  system_lock, calls >>

\* Identifiers the operating system can give a new process: not running, and
\* not held by a spawned child (whose Child handle is never waited on).
FreePids ==
  { p \in Pids : os[p] = None /\ \A i \in 1..NumSessions : children[i].pid # p }

\* Command::new(&updated_cmd[0]).current_dir(cwd).args(&updated_cmd[1..])
\*   .stdout(Stdio::piped()).spawn(), then thread::spawn of the multiplexer.
SpawnChild(cwd, cmd_line, path, pid) ==
  LET updated_cmd == UpdatedCmd(cmd_line, path) IN
  /\ children' = Append(children,
        [pid |-> pid, exe |-> updated_cmd[1], argv |-> updated_cmd, cwd |-> cwd,
         cmd_line |-> cmd_line, loader |-> path])
  /\ os' = [os EXCEPT ![pid] = Some([exe |-> updated_cmd[1], cmd |-> updated_cmd])]
  /\ pipe' = Append(pipe, [out |-> <<>>, closed |-> FALSE, produced |-> <<>>])
  /\ mux' = Append(mux, NewMux)
  /\ ret' = Return("relaunch_with_weave", "ok", "none")
  /\ UNCHANGED << alive, home, weave_dir, now, selected_process, lastSelect,
                  snapshot, files, events, listed, killed,
                  faults,
                  system_lock, calls >>

\* pid: the identifier the operating system gives the child, if one starts.
relaunch_with_weave(cwd, cmd_line, pid) ==
  /\ alive
  /\ pid \in FreePids
  /\ NumSessions < MaxSessions
  /\ LET weave_loader_path == get_weave_loader_path IN
     IF weave_loader_path = None
     THEN /\ ret' = Return("relaunch_with_weave", "ok", "none")
          /\ UNCHANGED << alive, home, weave_dir, now, selected_process, lastSelect,
                          os, snapshot, children, pipe, mux, files, events, listed, killed,
                  faults,
                  system_lock, calls >>
     ELSE IF ~weave_loader_path[1].unicode
     THEN PanicInCommand("relaunch_with_weave", "to_str")
     ELSE IF Len(cmd_line) < 1
     THEN PanicInCommand("relaunch_with_weave", "insert")
     ELSE IF \/ UpdatedCmd(cmd_line, weave_loader_path[1].path)[1] \notin Executables
             \/ cwd \notin Directories
     THEN PanicInCommand("relaunch_with_weave", "spawn")
     ELSE SpawnChild(cwd, cmd_line, weave_loader_path[1].path, pid)

\* For the record: the lines of a child that wait in its pipe (or between the
\* write and the comparison) when the selection changes to that child were
\* written before that switch.
RECURSIVE MarkOld(_)
MarkOld(ls) ==
  IF ls = <<>> THEN <<>>
  ELSE << [Head(ls) EXCEPT !.old = TRUE] >> \o MarkOld(Tail(ls))

switch_console_output(pid) ==
  /\ alive
  /\ selected_process' = StoreSelection(selected_process, pid)
  /\ lastSelect' = pid
  /\ pipe' = [i \in 1..NumSessions |->
               IF pid # selected_process /\ pid = children[i].pid
               THEN [pipe[i] EXCEPT !.out = MarkOld(@)] ELSE pipe[i]]
  /\ mux' = [i \in 1..NumSessions |->
              IF pid # selected_process /\ pid = children[i].pid
              THEN [mux[i] EXCEPT !.cur = MarkOld(@)] ELSE mux[i]]
  /\ UNCHANGED << alive, home, weave_dir, now, os, snapshot, children,
                  files, events, ret, listed, killed,
                  faults,
                  system_lock, calls >>

\* ------------------------------------------------------- process snapshot
\* str::contains
Contains(s, sub) ==
  \E k \in 1..(Len(s) - Len(sub) + 1) : SubSeq(s, k, k + Len(sub) - 1) = sub

AnyArgContains(cmd, sub) == \E k \in 1..Len(cmd) : Contains(cmd[k], sub)

\* cmd.iter().skip_while(|arg| arg != "--version").nth(1)
RECURSIVE SkipWhileNotVersion(_)
SkipWhileNotVersion(cmd) ==
  IF cmd = <<>> \/ Head(cmd) = "--version" THEN cmd
  ELSE SkipWhileNotVersion(Tail(cmd))

\* A version extractor that takes the flag itself: nth(0).
VersionOfFlag(cmd) ==
  LET rest == SkipWhileNotVersion(cmd)
  IN IF Len(rest) >= 1 THEN Some(rest[1]) ELSE None

VersionOf(cmd) ==
  LET rest == SkipWhileNotVersion(cmd)
  IN IF Len(rest) >= 2 THEN Some(rest[2]) ELSE None

\* A classifier that looks for the mod framework first.
ClientTypeForgeFirst(cmd) ==
  IF AnyArgContains(cmd, "minecraftforge") THEN "Forge"
  ELSE IF AnyArgContains(cmd, "lunar") THEN "LunarClient"
  ELSE "Vanilla"

ClientTypeOf(cmd) ==
  IF AnyArgContains(cmd, "lunar") THEN "LunarClient"
  ELSE IF AnyArgContains(cmd, "minecraftforge") THEN "Forge"
  ELSE "Vanilla"

\* The closure of filter_map: Some(MinecraftInstance) or None.
Classify(pid, proc) ==
  IF proc.exe \notin {"javaw.exe", "java"} THEN None
  ELSE IF ~AnyArgContains(proc.cmd, ".minecraft") THEN None
  ELSE IF VersionOf(proc.cmd) = None THEN None
  ELSE Some([pid |-> pid, cmd |-> proc.cmd, version |-> VersionOf(proc.cmd)[1],
             client_type |-> ClientTypeOf(proc.cmd),
             weave_attached |-> AnyArgContains(proc.cmd, "Weave-Loader")])

\* system.refresh_processes_specifics(ProcessRefreshKind::new())
Refreshed == os

\* Whether a process table holds a process under the identifier.
Holds(table, pid) == pid \in DOMAIN table /\ table[pid] # None

\* A kill that answers from the snapshot alone.
KillResultInSnapshot(inSnapshot, signalOk) == inSnapshot

\* is_some_and(|p| p.kill()) on the snapshot's entry
KillResult(inSnapshot, signalOk) == inSnapshot /\ signalOk

\* A process of the rest of the system starts.
OsStart(pid, shape) ==
  /\ pid \in FreePids
  /\ os' = [os EXCEPT ![pid] = Some(shape)]
  /\ UNCHANGED << alive, home, weave_dir, now, selected_process, lastSelect,
                  snapshot, children, pipe, mux, files, events, ret, listed, killed,
                  faults,
                  system_lock, calls >>

IsChild(pid) == \E i \in 1..NumSessions : children[i].pid = pid

\* A process of the rest of the system exits.
OsExit(pid) ==
  /\ os[pid] # None
  /\ ~IsChild(pid)
  /\ os' = [os EXCEPT ![pid] = None]
  /\ UNCHANGED << alive, home, weave_dir, now, selected_process, lastSelect,
                  snapshot, children, pipe, mux, files, events, ret, listed, killed,
                  faults,
                  system_lock, calls >>

\* system.processes().values().filter_map(..).collect()
ListInstances(table) ==
  { Classify(p, table[p][1])[1] :
      p \in { q \in Pids : table[q] # None /\ Classify(q, table[q][1]) # None } }

fetch_minecraft_instances ==
  /\ alive
  /\ snapshot' = Refreshed
  /\ listed' = ListInstances(Refreshed)
  /\ UNCHANGED << alive, home, weave_dir, now, selected_process, lastSelect, os,
                  children, pipe, mux, files, events, ret, killed, faults,
                  system_lock, calls >>

\* The host's own process is always in the table, so neither unwrap fails.
get_memory_usage ==
  /\ alive
  /\ snapshot' = Refreshed
  /\ UNCHANGED << alive, home, weave_dir, now, selected_process, lastSelect, os,
                  children, pipe, mux, files, events, ret, listed, killed,
                  faults,
                  system_lock, calls >>

\* The snapshot is looked up as it stands; Process::kill signals whatever
\* process holds the identifier now, and a killed child's stdout closes.
KillLookup(pid) ==
  LET inSnapshot == Holds(snapshot, pid)
      signalOk == inSnapshot /\ Holds(os, pid)
  IN /\ killed' = [pid |-> pid, val |-> KillResult(inSnapshot, signalOk),
                    existed |-> Holds(os, pid), signaled |-> signalOk]
     /\ os' = IF signalOk THEN [os EXCEPT ![pid] = None] ELSE os
     /\ pipe' = [i \in 1..NumSessions |->
                  IF signalOk /\ children[i].pid = pid
                  THEN [pipe[i] EXCEPT !.closed = TRUE] ELSE pipe[i]]

kill_pid(pid) ==
  /\ alive
  /\ KillLookup(pid)
  /\ UNCHANGED << alive, home, weave_dir, now, selected_process, lastSelect,
                  snapshot, children, mux, files, events, ret, listed, faults,
                  system_lock, calls >>

\* ------------------------------------------- the lock around the snapshot
\* The three snapshot commands step by step, for callers served on threads of
\* their own: app_state.system.lock().unwrap(), the refresh (scan and memory
\* query only), the read, and the release of the guard when it goes out of
\* scope.  The commands above are these steps taken without interruption.
SnapshotOps == {"fetch_minecraft_instances", "get_memory_usage", "kill_pid"}

\* A lock that lets every caller in.
AcquirableAlways(holder) == TRUE

\* Mutex::lock() returns when no one holds the mutex.
Acquirable(holder) == holder = 0

\* The front end invokes a command; the caller reaches lock().
Invoke(c, op, pid) ==
  /\ alive
  /\ op = "kill_pid" \/ pid = 0
  /\ calls[c].pc = "idle"
  /\ calls' = [calls EXCEPT ![c] = [pc |-> "waiting", op |-> op, pid |-> pid]]
  /\ UNCHANGED << alive, home, weave_dir, now, selected_process, lastSelect, os,
                  snapshot, children, pipe, mux, files, events, ret, listed, killed,
                  faults, system_lock >>

\* lock() returns the guard.  kill_pid goes straight to its read.
Acquire(c) ==
  /\ alive
  /\ calls[c].pc = "waiting"
  /\ Acquirable(system_lock)
  /\ system_lock' = c
  /\ calls' = [calls EXCEPT ![c].pc = IF calls[c].op = "kill_pid" THEN "reading"
                                      ELSE "locked"]
  /\ UNCHANGED << alive, home, weave_dir, now, selected_process, lastSelect, os,
                  snapshot, children, pipe, mux, files, events, ret, listed, killed,
                  faults >>

\* refresh_processes_specifics starts.
BeginRefresh(c) ==
  /\ alive
  /\ calls[c].pc = "locked"
  /\ calls' = [calls EXCEPT ![c].pc = "refreshing"]
  /\ UNCHANGED << alive, home, weave_dir, now, selected_process, lastSelect, os,
                  snapshot, children, pipe, mux, files, events, ret, listed, killed,
                  faults, system_lock >>

\* refresh_processes_specifics returns.
EndRefresh(c) ==
  /\ alive
  /\ calls[c].pc = "refreshing"
  /\ snapshot' = Refreshed
  /\ calls' = [calls EXCEPT ![c].pc = "reading"]
  /\ UNCHANGED << alive, home, weave_dir, now, selected_process, lastSelect, os,
                  children, pipe, mux, files, events, ret, listed, killed,
                  faults, system_lock >>

\* The read of the snapshot, the return value, and the drop of the guard.
ReadRelease(c) ==
  /\ alive
  /\ calls[c].pc = "reading"
  /\ system_lock' = IF system_lock = c THEN 0 ELSE system_lock
  /\ calls' = [calls EXCEPT ![c] = Idle]
  /\ IF calls[c].op = "fetch_minecraft_instances"
     THEN /\ listed' = ListInstances(snapshot)
          /\ UNCHANGED << os, pipe, killed >>
     ELSE IF calls[c].op = "kill_pid"
     THEN /\ KillLookup(calls[c].pid)
          /\ UNCHANGED listed
     ELSE UNCHANGED << os, pipe, killed, listed >>
  /\ UNCHANGED << alive, home, weave_dir, now, selected_process, lastSelect,
                  snapshot, children, mux, files, events, ret, faults >>

\* ------------------------------------------------------- the spawned child
ReadEndOpen(i) == mux[i].pc \in {"start", "loop", "compare", "emit"}

RECURSIVE TotalProduced(_)
TotalProduced(k) ==
  IF k = 0 THEN 0 ELSE Len(pipe[k].produced) + TotalProduced(k - 1)

\* The child writes one line to its stdout.
ChildWrite(i, shape) ==
  /\ i \in 1..NumSessions
  /\ ~pipe[i].closed
  /\ ReadEndOpen(i)
  /\ TotalProduced(NumSessions) < MaxLines
  /\ LET line == [src |-> i, n |-> Len(pipe[i].produced) + 1, len |-> shape.len,
                  utf8 |-> shape.utf8, old |-> FALSE]
     IN pipe' = [pipe EXCEPT ![i].out = Append(@, line),
                             ![i].produced = Append(@, line)]
  /\ UNCHANGED << alive, home, weave_dir, now, selected_process, lastSelect, os,
                  snapshot, children, mux, files, events, ret, listed, killed,
                  faults,
                  system_lock, calls >>

\* The child exits (or closes its stdout): the pipe reaches end-of-input once
\* drained.
ChildExit(i) ==
  /\ i \in 1..NumSessions
  /\ ~pipe[i].closed
  /\ pipe' = [pipe EXCEPT ![i].closed = TRUE]
  /\ os' = [os EXCEPT ![children[i].pid] = None]
  /\ UNCHANGED << alive, home, weave_dir, now, selected_process, lastSelect,
                  snapshot, children, mux, files, events, ret, listed, killed,
                  faults,
                  system_lock, calls >>

\* ------------------------------------------------------ output multiplexer
\* The file a multiplexer's handle is open on, after a write of bs at the
\* handle's offset.
HandleWrite(m, bs) ==
  [files EXCEPT ![m.log[1]] = Some(WriteAt(@[1], m.pos, bs))]

\* The multiplexer after its handle wrote bs to the file.
Wrote(m, bs) == [m EXCEPT !.pos = @ + BufBytes(bs), !.flushed = @ \o bs]

\* A panic in the multiplexer thread unwinds it: the BufWriter is dropped
\* (one more flush of buf, errors ignored: dropOk is its outcome), the file
\* and the pipe's read end close.  out is what the failing call had already
\* written through; what the drop could not write stays in buf, lost.
Unwound(m, cause, out, buf, dropOk) ==
  LET d == DropWriter(buf, dropOk) IN
  [Wrote(m, out \o d) EXCEPT !.pc = "panicked", !.cause = cause, !.cur = None,
                            !.buf = IF d = buf THEN <<>> ELSE buf]

UnwoundOut(out, buf, dropOk) == out \o DropWriter(buf, dropOk)

\* I/O calls that fail in a step that panics: the call that made it panic,
\* and the flush of the drop when it has something to write and fails.
PanicFaults(buf, dropOk) == 1 + (IF buf # <<>> /\ ~dropOk THEN 1 ELSE 0)

\* Local::now() (a reading t no earlier than the last one),
\* File::create(&log_path), BufReader and BufWriter set up.
MuxOpen(i) ==
  /\ alive
  /\ i \in 1..NumSessions
  /\ mux[i].pc = "start"
  /\ \E t \in now..MaxTicks, createOk \in BOOLEAN :
       /\ now' = t
       /\ faults' = faults + (IF createOk THEN 0 ELSE 1)
       /\ faults' <= MaxFaults
       /\ IF createOk
          THEN /\ files' = [files EXCEPT ![LogPath(t)] = Some(EmptyFile)]
               /\ mux' = [mux EXCEPT ![i].pc = "loop", ![i].log = Some(LogPath(t))]
          ELSE /\ mux' = [mux EXCEPT ![i].pc = "panicked", ![i].cause = "create"]
               /\ UNCHANGED files
  /\ UNCHANGED << alive, home, weave_dir, selected_process, lastSelect, os,
                  snapshot, children, pipe, events, ret, listed, killed,
                  system_lock, calls >>

\* reader.lines() yields the next line; an Err (bytes that are not UTF-8) is
\* skipped by `if let Ok(line)`; otherwise writer.write_all(...).expect(...).
MuxWriteLine(i) ==
  /\ alive
  /\ i \in 1..NumSessions
  /\ mux[i].pc = "loop"
  /\ pipe[i].out # <<>>
  /\ pipe' = [pipe EXCEPT ![i].out = Tail(@)]
  /\ LET line == Head(pipe[i].out)
         m == mux[i]
     IN IF ~line.utf8
        THEN UNCHANGED << mux, files, faults >>
        ELSE \E flushOk, directOk, dropOk \in BOOLEAN :
               LET w == WriteAll(m.buf, line, flushOk, directOk) IN
               IF w.ok
               THEN /\ files' = HandleWrite(m, w.out)
                    /\ mux' = [mux EXCEPT ![i] =
                                 [Wrote(m, w.out) EXCEPT !.pc = "compare",
                                                         !.buf = w.buf,
                                                         !.cur = Some(line),
                                                         !.written = Append(@, line)]]
                    /\ UNCHANGED faults
               ELSE /\ faults' = faults + PanicFaults(w.buf, dropOk)
                    /\ faults' <= MaxFaults
                    /\ files' = HandleWrite(m, UnwoundOut(w.out, w.buf, dropOk))
                    /\ mux' = [mux EXCEPT ![i] =
                                 Unwound(m, "write", w.out, w.buf, dropOk)]
  /\ UNCHANGED << alive, home, weave_dir, now, selected_process, lastSelect, os,
                  snapshot, children, events, ret, listed, killed,
                  system_lock, calls >>

\* The forward decision: the register is read under its lock, and the guard
\* is released before the block of the `if` runs.
MuxCompare(i) ==
  /\ alive
  /\ i \in 1..NumSessions
  /\ mux[i].pc = "compare"
  /\ LET fwd == Forwards(children[i].pid, selected_process)
         d == [line |-> Text(mux[i].cur[1]), old |-> mux[i].cur[1].old,
               selected |-> (selected_process = children[i].pid),
               last |-> (lastSelect = children[i].pid), fwd |-> fwd]
     IN mux' = [mux EXCEPT ![i].pc = IF fwd THEN "emit" ELSE "loop",
                           ![i].cur = IF fwd THEN @ ELSE None,
                           ![i].decided = Append(@, d)]
  /\ UNCHANGED << alive, home, weave_dir, now, selected_process, lastSelect, os,
                  snapshot, children, pipe, files, events, ret, listed, killed,
                  faults,
                  system_lock, calls >>

\* app.emit_all("console_output", ConsolePayload { line, pid }).expect(...)
MuxEmit(i) ==
  /\ alive
  /\ i \in 1..NumSessions
  /\ mux[i].pc = "emit"
  /\ \E emitOk, dropOk \in BOOLEAN :
       LET m == mux[i] IN
       IF emitOk
       THEN /\ events' = Append(events, ConsolePayload(m.cur[1], children[i].pid))
            /\ mux' = [mux EXCEPT ![i].pc = "loop", ![i].cur = None]
            /\ UNCHANGED << files, faults >>
       ELSE /\ faults' = faults + PanicFaults(m.buf, dropOk)
            /\ faults' <= MaxFaults
            /\ files' = HandleWrite(m, UnwoundOut(<<>>, m.buf, dropOk))
            /\ mux' = [mux EXCEPT ![i] = Unwound(m, "emit", <<>>, m.buf, dropOk)]
            /\ UNCHANGED events
  /\ UNCHANGED << alive, home, weave_dir, now, selected_process, lastSelect, os,
                  snapshot, children, pipe, ret, listed, killed,
                  system_lock, calls >>

\* End of input: writer.flush().expect(...), then the closure returns and
\* drops the writer, the file and the Child handle.
MuxFinish(i) ==
  /\ alive
  /\ i \in 1..NumSessions
  /\ mux[i].pc = "loop"
  /\ pipe[i].out = <<>>
  /\ pipe[i].closed
  /\ \E flushOk, dropOk \in BOOLEAN :
       LET m == mux[i]
           fl == FlushBuf(m.buf, flushOk)
       IN IF fl.ok
          THEN /\ files' = HandleWrite(m, fl.out)
               /\ mux' = [mux EXCEPT ![i] =
                            [Wrote(m, fl.out) EXCEPT !.pc = "done", !.buf = <<>>]]
               /\ UNCHANGED faults
          ELSE /\ faults' = faults + PanicFaults(fl.buf, dropOk)
               /\ faults' <= MaxFaults
               /\ files' = HandleWrite(m, UnwoundOut(<<>>, fl.buf, dropOk))
               /\ mux' = [mux EXCEPT ![i] = Unwound(m, "flush", <<>>, fl.buf, dropOk)]
  /\ UNCHANGED << alive, home, weave_dir, now, selected_process, lastSelect, os,
                  snapshot, children, pipe, events, ret, listed, killed,
                  system_lock, calls >>

\* One step of multiplexer i.
MuxStep(i) ==
  \/ MuxOpen(i)
  \/ MuxWriteLine(i)
  \/ MuxCompare(i)
  \/ MuxEmit(i)
  \/ MuxFinish(i)

\* ------------------------------------------------------------ specification
\* Identifiers handed out in increasing order.
NextPid == NumSessions + 1

RelaunchNext ==
  \/ \E cwd \in Cwds, cmd_line \in MuxCmdLines :
       relaunch_with_weave(cwd, cmd_line, NextPid)
  \/ \E pid \in 0..MaxPid : switch_console_output(pid)
  \/ \E i \in Sessions, shape \in LineShapes : ChildWrite(i, shape)
  \/ \E i \in Sessions : ChildExit(i)
  \/ \E i \in Sessions : MuxOpen(i)
  \/ \E i \in Sessions : MuxWriteLine(i)
  \/ \E i \in Sessions : MuxCompare(i)
  \/ \E i \in Sessions : MuxEmit(i)
  \/ \E i \in Sessions : MuxFinish(i)

RelaunchSpec == Init /\ [][RelaunchNext]_vars

\* The process table, its snapshot and the commands that read it.
SnapshotNext ==
  \/ \E pid \in Pids, shape \in ProcShapes : OsStart(pid, shape)
  \/ \E pid \in Pids : OsExit(pid)
  \/ fetch_minecraft_instances
  \/ get_memory_usage
  \/ \E pid \in 0..MaxPid : kill_pid(pid)

SnapshotSpec == Init /\ [][SnapshotNext]_vars

\* Relaunches over every command line, with the commands that look at the
\* processes they start.
LaunchNext ==
  \/ \E cwd \in Cwds, cmd_line \in CmdLines, pid \in Pids :
       relaunch_with_weave(cwd, cmd_line, pid)
  \/ \E i \in Sessions : ChildExit(i)
  \/ fetch_minecraft_instances
  \/ \E pid \in 0..MaxPid : kill_pid(pid)

LaunchSpec == Init /\ [][LaunchNext]_vars

\* The snapshot commands served concurrently, step by step.
GateNext ==
  \/ \E pid \in Pids, shape \in ProcShapes : OsStart(pid, shape)
  \/ \E pid \in Pids : OsExit(pid)
  \/ \E c \in Callers, op \in SnapshotOps, pid \in 0..MaxPid : Invoke(c, op, pid)
  \/ \E c \in Callers : Acquire(c)
  \/ \E c \in Callers : BeginRefresh(c)
  \/ \E c \in Callers : EndRefresh(c)
  \/ \E c \in Callers : ReadRelease(c)

\* No snapshot command reads the home directory: one file system is enough.
GateInit == Init /\ home = "NoHome" /\ weave_dir = Listing("NotADir", <<>>)

GateSpec == GateInit /\ [][GateNext]_vars

Next ==
  \/ \E cwd \in Cwds, cmd_line \in CmdLines, pid \in Pids :
       relaunch_with_weave(cwd, cmd_line, pid)
  \/ \E pid \in 0..MaxPid : switch_console_output(pid)
  \/ \E i \in Sessions, shape \in LineShapes : ChildWrite(i, shape)
  \/ \E i \in Sessions : ChildExit(i)
  \/ \E i \in Sessions : MuxOpen(i)
  \/ \E i \in Sessions : MuxWriteLine(i)
  \/ \E i \in Sessions : MuxCompare(i)
  \/ \E i \in Sessions : MuxEmit(i)
  \/ \E i \in Sessions : MuxFinish(i)
  \/ \E pid \in Pids, shape \in ProcShapes : OsStart(pid, shape)
  \/ \E pid \in Pids : OsExit(pid)
  \/ fetch_minecraft_instances
  \/ get_memory_usage
  \/ \E pid \in 0..MaxPid : kill_pid(pid)
  \/ \E c \in Callers, op \in SnapshotOps, pid \in 0..MaxPid : Invoke(c, op, pid)
  \/ \E c \in Callers : Acquire(c)
  \/ \E c \in Callers : BeginRefresh(c)
  \/ \E c \in Callers : EndRefresh(c)
  \/ \E c \in Callers : ReadRelease(c)

Spec == Init /\ [][Next]_vars

\* The classifier over every shape of process.
ClassifyNext ==
  \/ \E pid \in Pids, shape \in ClassifierShapes : OsStart(pid, shape)
  \/ \E pid \in Pids : OsExit(pid)
  \/ fetch_minecraft_instances

ClassifySpec == GateInit /\ [][ClassifyNext]_vars

\* ------------------------------------------------------------------ claims
InSeq(x, xs) == \E k \in 1..Len(xs) : xs[k] = x

\* The lines on the live channel.
Emitted(text) == \E e \in 1..Len(events) : events[e].line = text

Ended(i) == mux[i].pc \in {"done", "panicked"}

\* The child's stdout has reached end-of-input: closed and drained.
EndOfInput(i) == pipe[i].closed /\ pipe[i].out = <<>>

\* The multiplexer has something to do.
HasWork(i) ==
  \/ mux[i].pc \in {"start", "compare", "emit"}
  \/ mux[i].pc = "loop" /\ (pipe[i].out # <<>> \/ pipe[i].closed)

C3_LogRoundTrip ==
  \A i \in 1..NumSessions :
    mux[i].pc = "done" =>
      ReadBack(files[mux[i].log[1]][1]) = Texts(pipe[i].produced)

\* C4: two multiplexers that are active at the same time write to two
\* distinct log files.
Active(i) == mux[i].pc \in {"loop", "compare", "emit"}

C4_DistinctLogFiles ==
  \A i, j \in 1..NumSessions :
    (i # j /\ Active(i) /\ Active(j)) => mux[i].log # mux[j].log

\* C5: once a child's stdout has reached end-of-input, its multiplexer has
\* ended with nothing left in its buffer, or it can still take a step towards
\* that.
C5_FlushesAndEnds ==
  \A i \in 1..NumSessions :
    EndOfInput(i) =>
      \/ Ended(i) /\ mux[i].buf = <<>>
      \/ ENABLED MuxStep(i)

\* C6: a spawn or I/O failure of a relaunch reaches the caller as a typed
\* failure value, and the application keeps running.
SpawnOrIoFailure ==
  \/ ret.cause = "spawn"
  \/ \E i \in 1..NumSessions : mux[i].cause \in {"create", "write", "flush"}

C6_TypedFailure == SpawnOrIoFailure => (ret.val = "Failure" /\ alive)

\* C7: after a failure local to one relaunch (spawn, log file, emit), every
\* other multiplexer with work to do can still step, and the discovery, kill,
\* memory and selection commands can still be served.
LocalFailure ==
  \/ ret.cause = "spawn"
  \/ \E i \in 1..NumSessions : mux[i].pc = "panicked"

C7_FailureStaysLocal ==
  LocalFailure =>
    /\ \A j \in 1..NumSessions : HasWork(j) => ENABLED MuxStep(j)
    /\ ENABLED fetch_minecraft_instances
    /\ ENABLED get_memory_usage
    /\ ENABLED kill_pid(0)
    /\ ENABLED switch_console_output(0)

\* C8: when no injector artifact is found (no home or configuration
\* directory, or no entry whose name starts with the prefix), a call of
\* relaunch_with_weave spawns no process, starts no multiplexer, creates no
\* log file and returns normally.
NoArtifact ==
  \/ home = "NoHome"
  \/ weave_dir.kind # "Dir"
  \/ \A k \in 1..Len(weave_dir.entries) :
       ~StartsWith(weave_dir.entries[k].name, "Weave-Loader")

C8_NoArtifactNoOp ==
  [][ (NoArtifact /\ \E cwd \in Cwds, cmd_line \in CmdLines, pid \in Pids :
                       relaunch_with_weave(cwd, cmd_line, pid))
      => /\ UNCHANGED << alive, os, children, pipe, mux, files, events >>
         /\ ret' = Return("relaunch_with_weave", "ok", "none") ]_vars

\* C8 witness: a relaunch without artifact has returned.
C8_Witness ==
  /\ NoArtifact
  /\ ret = Return("relaunch_with_weave", "ok", "none")
  /\ children = <<>>
  /\ alive

\* C9: every spawned process runs executable c[0] with the argument vector c
\* plus one element, "-javaagent:" followed by the injector path, at index 1.
C9_InjectedArgs ==
  \A i \in 1..NumSessions :
    LET c == children[i].cmd_line
        a == children[i].argv
    IN /\ Len(c) >= 1
       /\ children[i].exe = c[1]
       /\ Len(a) = Len(c) + 1
       /\ a[1] = c[1]
       /\ a[2] = "-javaagent:" \o children[i].loader
       /\ \A k \in 2..Len(c) : a[k + 1] = c[k]

\* C9 witness: children were spawned from a one-element command line and
\* from one with arguments after the executable.
C9_Witness ==
  /\ \E i \in 1..NumSessions : Len(children[i].cmd_line) = 1
  /\ \E i \in 1..NumSessions : Len(children[i].cmd_line) = 4

C11_KillOfNoProcess ==
  [][ \A pid \in 0..MaxPid :
        (kill_pid(pid) /\ ~Holds(os, pid))
        => /\ ~killed'.val
           /\ ~killed'.signaled
           /\ UNCHANGED << os, snapshot, selected_process >> ]_vars

\* C11 witness: kill_pid was called for a process that had exited but was still
\* in the snapshot, and answered false.
C11_Witness ==
  /\ killed.pid \in Pids
  /\ ~killed.existed
  /\ Holds(snapshot, killed.pid)
  /\ ~Holds(os, killed.pid)
  /\ ~killed.val

\* C12: the critical sections of fetch_minecraft_instances, get_memory_usage
\* and kill_pid on the snapshot exclude one another: at most one caller is
\* between lock() and the release of its guard, that caller holds the mutex,
\* and no caller reads the snapshot while another caller's refresh is in
\* progress.
InCritical(c) == calls[c].pc \in {"locked", "refreshing", "reading"}

C12_OneCallerInside ==
  /\ \A c, d \in Callers : (InCritical(c) /\ InCritical(d)) => c = d
  /\ \A c \in Callers : InCritical(c) => system_lock = c
  /\ \A c, d \in Callers :
       (calls[c].pc = "refreshing" /\ calls[d].pc = "reading") => c = d

\* C12 witness: a kill_pid waits at lock() while another caller's refresh is
\* in progress.
C12_Witness ==
  \E c, d \in Callers :
    /\ c # d
    /\ calls[c].pc = "refreshing"
    /\ calls[d].pc = "waiting"
    /\ calls[d].op = "kill_pid"

\* Where only fetch_minecraft_instances refreshes, `listed` is the answer for
\* the processes in `snapshot`.
UpperCase == "ABCDEFGHIJKLMNOPQRSTUVWXYZ"
LowerCase == "abcdefghijklmnopqrstuvwxyz"

LowerChar(ch) ==
  IF \E k \in 1..Len(UpperCase) : SubSeq(UpperCase, k, k) = ch
  THEN LET k == CHOOSE j \in 1..Len(UpperCase) : SubSeq(UpperCase, j, j) = ch
       IN SubSeq(LowerCase, k, k)
  ELSE ch

RECURSIVE ToLower(_)
ToLower(str) ==
  IF str = "" THEN ""
  ELSE LowerChar(SubSeq(str, 1, 1)) \o ToLower(SubSeq(str, 2, Len(str)))

AllowList == {"javaw.exe", "java"}

ListedPid(pid) == \E r \in listed : r.pid = pid

\* The position of the first "--version" token, or 0.
FlagAt(cmd) ==
  IF \E k \in 1..Len(cmd) : cmd[k] = "--version"
  THEN CHOOSE k \in 1..Len(cmd) :
         cmd[k] = "--version" /\ \A j \in 1..(k - 1) : cmd[j] # "--version"
  ELSE 0

HasVersion(cmd) == FlagAt(cmd) > 0 /\ FlagAt(cmd) < Len(cmd)

\* C13: a process is listed only if its executable file name equals an
\* allow-listed name when letter case is ignored, and no process whose name
\* differs from an allow-listed name only in letter case is rejected by the
\* executable rule (it is listed when it passes the other rules).
C13_CaseInsensitiveAllowList ==
  \A p \in Pids :
    snapshot[p] # None =>
      LET proc == snapshot[p][1] IN
      /\ ListedPid(p) => ToLower(proc.exe) \in AllowList
      /\ ( /\ ToLower(proc.exe) \in AllowList
           /\ AnyArgContains(proc.cmd, ".minecraft")
           /\ HasVersion(proc.cmd) ) => ListedPid(p)

\* C14: a process that passes the executable and data-directory rules is
\* listed with the token that follows its first "--version" token as version,
\* and is not listed at all when it has no "--version" token or nothing
\* follows it.
C14_VersionToken ==
  \A p \in Pids :
    ( /\ snapshot[p] # None
      /\ snapshot[p][1].exe \in AllowList
      /\ AnyArgContains(snapshot[p][1].cmd, ".minecraft") ) =>
      LET cmd == snapshot[p][1].cmd IN
      IF HasVersion(cmd)
      THEN /\ ListedPid(p)
           /\ \A r \in listed : r.pid = p => r.version = cmd[FlagAt(cmd) + 1]
      ELSE ~ListedPid(p)

\* C14 witness: of two processes that pass the first two rules, one is listed
\* with its version and the one whose "--version" is the last token is not.
C14_Witness ==
  \E p, q \in Pids :
    /\ snapshot[p] # None /\ snapshot[q] # None
    /\ \E r \in listed : r.pid = p /\ r.version = "1.12.2"
    /\ snapshot[q][1].cmd = << "java", ".minecraft", "--version" >>
    /\ ~ListedPid(q)

\* C15: every listed record carries exactly one of the three tags, chosen by
\* fixed priority: LunarClient when some argument contains "lunar", otherwise
\* Forge when some argument contains "minecraftforge", otherwise Vanilla.
C15_VariantByPriority ==
  \A r \in listed :
    LET lunar == \E k \in 1..Len(r.cmd) : Contains(r.cmd[k], "lunar")
        forge == \E k \in 1..Len(r.cmd) : Contains(r.cmd[k], "minecraftforge")
    IN /\ r.client_type \in {"LunarClient", "Forge", "Vanilla"}
       /\ (r.client_type = "LunarClient") <=> lunar
       /\ (r.client_type = "Forge") <=> (~lunar /\ forge)
       /\ (r.client_type = "Vanilla") <=> (~lunar /\ ~forge)

\* C15 witness: a command line with both markers, the mod-framework marker
\* first, is listed as LunarClient next to one listed as Forge.
C15_Witness ==
  /\ \E r \in listed :
       /\ r.client_type = "LunarClient"
       /\ \E k \in 1..Len(r.cmd) : Contains(r.cmd[k], "minecraftforge")
  /\ \E r \in listed : r.client_type = "Forge"

\* The events of the step that carry the identifier of session i's process.
NewEventsOf(i) ==
  { e \in (Len(events) + 1)..Len(events') : events'[e].pid = children[i].pid }

\* C16: when appending a line to the log file fails, the multiplexer ends:
\* the lines buffered before are written to the file unless that flush fails
\* too, and from then on the multiplexer takes no line from the pipe, changes
\* nothing and emits no event.
C16_WriteFailureEnds ==
  /\ [](\A i \in 1..NumSessions :
          mux[i].cause = "write" =>
            /\ mux[i].pc = "panicked"
            /\ mux[i].cur = None
            /\ Texts(mux[i].written) = Texts(mux[i].flushed \o mux[i].buf)
            /\ mux[i].buf # <<>> => faults >= 2)
  /\ [][ \A i \in 1..NumSessions :
           mux[i].cause = "write" =>
             /\ mux'[i] = mux[i]
             /\ Texts(pipe'[i].out) = Texts(pipe[i].out)
             /\ NewEventsOf(i) = {} ]_vars

\* C16 witness: a write failed when a line was in the buffer, and the line
\* reached the file.
C16_Witness ==
  \E i \in 1..NumSessions :
    /\ mux[i].cause = "write"
    /\ mux[i].flushed # <<>>
    /\ mux[i].buf = <<>>
    /\ InSeq(Text(mux[i].flushed[1]), ReadBack(files[mux[i].log[1]][1]))

\* The lines of the events that carry the identifier pid, in order.
RECURSIVE EventLinesOf(_, _)
EventLinesOf(pid, evs) ==
  IF evs = <<>> THEN <<>>
  ELSE (IF Head(evs).pid = pid THEN << Head(evs).line >> ELSE <<>>)
       \o EventLinesOf(pid, Tail(evs))

\* xs is obtained from ys by leaving elements out.
RECURSIVE IsSubsequence(_, _)
IsSubsequence(xs, ys) ==
  IF xs = <<>> THEN TRUE
  ELSE IF ys = <<>> THEN FALSE
  ELSE IF Head(xs) = Head(ys) THEN IsSubsequence(Tail(xs), Tail(ys))
  ELSE IsSubsequence(xs, Tail(ys))

NoDuplicates(xs) == \A a, b \in 1..Len(xs) : xs[a] = xs[b] => a = b

\* C17: in every state the events that carry the identifier of a process are,
\* in order and without repetition, lines its multiplexer has already handed
\* to its log writer, and every event carries the identifier of the process
\* that wrote its line.
C17_EventsFollowTheLog ==
  /\ \A i \in 1..NumSessions :
       LET evs == EventLinesOf(children[i].pid, events) IN
       /\ IsSubsequence(evs, Texts(mux[i].written))
       /\ NoDuplicates(evs)
  /\ \A e \in 1..Len(events) :
       \E i \in 1..NumSessions :
         /\ children[i].pid = events[e].pid
         /\ events[e].line[1] = i

\* C17 witness: a process has two lines in its log writer and only the second
\* one on the live channel.
C17_Witness ==
  \E i \in 1..NumSessions :
    /\ Len(mux[i].written) = 2
    /\ EventLinesOf(children[i].pid, events) = << Text(mux[i].written[2]) >>

\* C18: a step that changes the selection register is a step of
\* switch_console_output and never one of relaunch_with_weave; the register
\* always holds the argument of the last switch_console_output (0 before the
\* first); and every event was
\* decided when the last completed switch_console_output had been called with
\* the identifier of the event's process, so nothing is emitted before that.
C18_OnlySwitchSelects ==
  /\ [](selected_process = lastSelect)
  /\ [][ selected_process' # selected_process
         => /\ \E pid \in 0..MaxPid : switch_console_output(pid)
            /\ ~\E cwd \in Cwds, cmd_line \in CmdLines, pid \in Pids :
                  relaunch_with_weave(cwd, cmd_line, pid) ]_vars
  /\ [](\A e \in 1..Len(events) :
          /\ events[e].pid # 0
          /\ \E i \in 1..NumSessions : \E k \in 1..Len(mux[i].decided) :
               /\ children[i].pid = events[e].pid
               /\ mux[i].decided[k].line = events[e].line
               /\ mux[i].decided[k].last)

\* C18 witness: a relaunched process had a line dropped while the register
\* still held 0, and its next line was emitted after the first
\* switch_console_output with its identifier.
C18_Witness ==
  \E i \in 1..NumSessions :
    /\ Len(mux[i].decided) = 2
    /\ ~mux[i].decided[1].fwd
    /\ ~mux[i].decided[1].old
    /\ mux[i].decided[2].fwd
    /\ ~mux[i].decided[2].old
    /\ events = << [line |-> mux[i].decided[2].line, pid |-> children[i].pid] >>
    /\ selected_process = children[i].pid

\* C19: the argument vector of every spawned process has an argument that
\* contains "Weave-Loader", so the classifier gives it weave_attached = true:
\* in its answer for that vector, and in every record listed for the process.
C19_RelaunchedIsAttached ==
  /\ \A i \in 1..NumSessions :
       LET answer == Classify(children[i].pid,
                              [exe |-> children[i].exe, cmd |-> children[i].argv])
       IN /\ AnyArgContains(children[i].argv, "Weave-Loader")
          /\ answer # None => answer[1].weave_attached
  /\ \A r \in listed :
       (\E i \in 1..NumSessions : children[i].pid = r.pid /\ children[i].argv = r.cmd)
       => r.weave_attached

\* C19 witness: fetch_minecraft_instances listed a relaunched process, with
\* the inserted argument naming the first matching artifact of the directory.
C19_Witness ==
  \E r \in listed : \E i \in 1..NumSessions :
    /\ children[i].pid = r.pid
    /\ r.cmd = children[i].argv
    /\ r.cmd[2] = "-javaagent:/home/u/.weave/Weave-Loader-Agent.jar"
    /\ r.weave_attached
====
